---- MODULE Spec2Model ----
(***************************************************************************)
(* The request pipeline of opengluck/server.py as a state machine.         *)
(*                                                                         *)
(* Flask runs the before_request functions in registration order and stops *)
(* at the first that returns a response: _prevent_recursive_calls          *)
(* (server.py 71-76), then _log_request (78-80), which runs                *)
(* _process_request (47-68); the view of the matched route runs after      *)
(* them (83-108).  Each worker serves one request at a time; the steps of  *)
(* one request are split at the calls that do I/O: the audit write, the    *)
(* admin lookup, each webhook delivery and each read of the store.         *)
(*                                                                         *)
(* log_request_to_redis, the login helpers, call_webhooks and get_revision *)
(* live in modules that are not part of the source at hand; they are       *)
(* modelled from their contracts in the specification.  The requests of    *)
(* the model are those the rate limiter (29-37) lets through.              *)
(***************************************************************************)
EXTENDS Naturals, Sequences, FiniteSets, TLC

\* ------------------------------------------------------------- bounds
\* Requests that arrive in one behaviour.
MaxReq == 3
\* Writes of the revision by the external writer in one behaviour.
MaxWrites == 2

\* ------------------------------------------------------------- constants
Workers == {"w1", "w2"}

SentinelHeader == "x-opengluck-login"

\* Webhook targets that may be registered: two external consumers, and a
\* route of this same server.
Targets == {"ext", "ext2", "self"}
LoopbackTargets == {"self"}

Paths == {"/opengluck/ping", "/opengluck/random", "/opengluck/revision", "/other"}
Creds == {"admin", "user", "anon"}
\* Raw request bodies: valid JSON, text that is not JSON, empty, and bytes
\* that are not UTF-8.
Bodies == {"{a:1}", "not json", "", "<ff>"}
\* The content type a request declares for its body.
ContentTypes == {"application/json", "text/plain"}
\* Header sets a client may send: none of interest, the sentinel with an
\* empty value, the sentinel in another letter case.
HeaderSets ==
    { {},
      {<<"x-opengluck-login", "">>},
      {<<"X-OpenGluck-Login", "tok">>} }
RandomValues == {"r1", "r2"}
DeliveryOutcomes == {"ok", "failed", "timeout"}

NoData == [tag |-> "null", val |-> ""]
NoPayload == [method |-> "", path |-> "", headers |-> {}, cookies |-> "", data |-> NoData]
NoResponse == [status |-> 0, body |-> <<>>]
NoReads == [revision |-> 0, changedAt |-> 0, ver1 |-> 0, ver2 |-> 0, reads |-> 0]
NoRequest ==
    [id |-> 0, hops |-> 0, method |-> "", path |-> "", headers |-> {},
     cred |-> "", ctype |-> "", body |-> ""]

VARIABLES
    pc,         \* pc[w]: where worker w is in its request
    req,        \* req[w]: the request worker w serves
    stages,     \* stages[w]: the calls made for the request, in order
    logres,     \* logres[w]: outcome of log_request_to_redis
    admin,      \* admin[w]: answer of the admin lookup
    payload,    \* payload[w]: the payload built by _process_request
    sent,       \* sent[w][t]: the deliveries made to target t, in order
    resp,       \* resp[w]: the response sent to the client
    fault,      \* fault[w]: the call that raised, if the request failed
    rd,         \* rd[w]: the handler's locals (revision, revision_changed_at), and
                \* history: the number of writes made before each read, and
                \* the number of reads that returned a value
    auditLog,   \* shared store: the audit records
    revision,   \* shared store: revision
    changedAt,  \* shared store: revision_changed_at
    writes,     \* number of writes of the revision so far
    stored,     \* history: the pairs <<revision, changedAt>> the store has held
    logCalls,   \* history: <<id, appended>> of every call of log_request_to_redis
    inbox,      \* webhook calls to this server not yet served
    arrived,    \* number of requests that have arrived
    webhooks    \* the registered webhook targets

vars ==
    <<pc, req, stages, logres, admin, payload, sent, resp, fault, rd,
      auditLog, revision, changedAt, writes, stored, logCalls, inbox, arrived,
      webhooks>>

reqVars == <<pc, req, stages, logres, admin, payload, sent, resp, fault, rd>>
storeVars == <<auditLog, revision, changedAt, writes, stored, logCalls>>

\* ------------------------------------------------------------- helpers
\* Lower-case form of a header name (werkzeug compares header names
\* without regard to case).
Lower(k) ==
    CASE k = "X-OpenGluck-Login" -> "x-opengluck-login"
      [] k = "X-OPENGLUCK-LOGIN" -> "x-opengluck-login"
      [] OTHER -> k

\* name in request.headers
HasHeader(headers, name) == \E h \in headers : Lower(h[1]) = Lower(name)

\* _prevent_recursive_calls: the status of the response it returns, 0 when it
\* returns None.
PreventRecursiveCallsIfValue(headers) ==
    IF \E h \in headers : Lower(h[1]) = Lower(SentinelHeader) /\ h[2] # "" THEN 423 ELSE 0
PreventRecursiveCallsNoReturn(headers) == 0
PreventRecursiveCalls(headers) ==
    IF HasHeader(headers, SentinelHeader) THEN 423 ELSE 0

\* The next step of a request after _prevent_recursive_calls: Flask stops the
\* before_request chain at the first function that returns a response, else
\* it calls the next one, _log_request.
AfterGuardSkipsLog(status) == IF status # 0 THEN "done" ELSE "admin"
AfterGuardSkipsHook(status) == IF status # 0 THEN "done" ELSE "route"
AfterGuard(status) == IF status # 0 THEN "done" ELSE "log"

\* log_request_to_redis (opengluck/http_request_log.py): appends the record
\* when the store is reachable; when it is not, reports the error locally and
\* returns.
log_request_to_redis_raising(ok) == [appended |-> ok, raised |-> ~ok]
log_request_to_redis(ok) == [appended |-> ok, raised |-> FALSE]

\* The record the audit logger appends for request r.
AuditRecord(r) == [id |-> r.id, headers |-> r.headers]

\* The body parses as JSON; the body decodes as UTF-8.
IsJson(raw) == raw = "{a:1}"
IsUtf8(raw) == raw # "<ff>"

\* request.is_json: the declared content type is a JSON one.
IsJsonMimetype(ctype) == ctype = "application/json"

\* request.get_json() (line 54): the decoded value of a body declared and
\* valid as JSON; an exception for a body declared as JSON that does not
\* parse; for a body not declared as JSON, None without an exception
\* (silent, Flask before 2.1) or an exception (Flask 2.1 and later).
GetJson(ctype, raw, silent) ==
    IF ~IsJsonMimetype(ctype)
    THEN [raised |-> ~silent, data |-> NoData]
    ELSE IF IsJson(raw) THEN [raised |-> FALSE, data |-> [tag |-> "json", val |-> raw]]
    ELSE [raised |-> TRUE, data |-> NoData]

\* Lines 53-58: data is what get_json returned; when get_json raises, the
\* body decoded as UTF-8, None when that text is empty.  The decode is not
\* inside a try of its own: bytes that are not UTF-8 raise
\* UnicodeDecodeError.
CaptureBody(ctype, raw, silent) ==
    LET js == GetJson(ctype, raw, silent) IN
    IF ~js.raised THEN [raised |-> FALSE, data |-> js.data]
    ELSE IF ~IsUtf8(raw) THEN [raised |-> TRUE, data |-> NoData]
    ELSE IF Len(raw) = 0 THEN [raised |-> FALSE, data |-> NoData]
    ELSE [raised |-> FALSE, data |-> [tag |-> "text", val |-> raw]]

\* Lines 59-65: the payload is built from flask.request, which is bound to
\* the request the calling worker serves, and is a local of the call.
BuildPayloadOfLastArrived(r, data) ==
    LET last == CHOOSE w \in Workers : \A u \in Workers : req[u].id <= req[w].id IN
    [method |-> req[last].method, path |-> req[last].path, headers |-> req[last].headers,
     cookies |-> req[last].cred, data |-> data]
BuildPayload(r, data) ==
    [method |-> r.method, path |-> r.path, headers |-> r.headers,
     cookies |-> r.cred, data |-> data]

\* The Authentication Oracle (opengluck/login.py).
is_current_request_logged_in(r) == r.cred \in {"admin", "user"}
is_current_request_logged_in_as_admin(r) == r.cred = "admin"

\* Line 67: the condition under which _process_request calls call_webhooks.
CallsWebhooksWhenLoggedIn(r) == is_current_request_logged_in(r)
CallsWebhooks(r) == is_current_request_logged_in_as_admin(r)

\* call_webhooks (opengluck/webhooks.py): the headers of an outbound call,
\* and the request a loopback target receives from it.
WebhookHeaders == {<<SentinelHeader, "tok">>}
WebhookRequest(r) ==
    [id |-> 0, hops |-> r.hops + 1, method |-> "POST", path |-> "/opengluck/ping",
     headers |-> WebhookHeaders, cred |-> "admin", ctype |-> "application/json",
     body |-> "{a:1}"]

\* call_webhooks delivers to each registered target once, whatever happened
\* to the others.
CanDeliverUntilFailure(w, t) ==
    /\ sent[w][t] = <<>>
    /\ \A u \in webhooks : \A i \in 1..Len(sent[w][u]) : sent[w][u][i].outcome = "ok"
CanDeliver(w, t) == sent[w][t] = <<>>

\* call_webhooks returns when every target has been tried; failures of
\* deliveries are recorded, not raised.
call_webhooks_raising(outcomes) == [raised |-> \E o \in outcomes : o # "ok"]
call_webhooks(outcomes) == [raised |-> FALSE]

\* ------------------------------------------------------------- Init
Init ==
    /\ pc = [w \in Workers |-> "idle"]
    /\ req = [w \in Workers |-> NoRequest]
    /\ stages = [w \in Workers |-> <<>>]
    /\ logres = [w \in Workers |-> "none"]
    /\ admin = [w \in Workers |-> "none"]
    /\ payload = [w \in Workers |-> NoPayload]
    /\ sent = [w \in Workers |-> [t \in Targets |-> <<>>]]
    /\ resp = [w \in Workers |-> NoResponse]
    /\ fault = [w \in Workers |-> "none"]
    /\ rd = [w \in Workers |-> NoReads]
    /\ auditLog = <<>>
    /\ revision = 0
    /\ changedAt = 0
    /\ writes = 0
    /\ stored = {<<0, 0>>}
    /\ logCalls = {}
    /\ inbox = <<>>
    /\ arrived = 0
    /\ webhooks \in SUBSET Targets

\* ------------------------------------------------------------- actions
\* The request ends: the response goes to the client.
Finish(w, response, raisedBy) ==
    /\ pc' = [pc EXCEPT ![w] = "done"]
    /\ resp' = [resp EXCEPT ![w] = response]
    /\ fault' = [fault EXCEPT ![w] = raisedBy]

Status(n) == [status |-> n, body |-> <<>>]

\* Worker w takes request r: Flask calls _prevent_recursive_calls first.
StartRequest(w, r) ==
    LET st == PreventRecursiveCalls(r.headers) IN
    /\ req' = [req EXCEPT ![w] = r]
    /\ stages' = [stages EXCEPT ![w] = <<"guard">>]
    /\ logres' = [logres EXCEPT ![w] = "none"]
    /\ admin' = [admin EXCEPT ![w] = "none"]
    /\ payload' = [payload EXCEPT ![w] = NoPayload]
    /\ sent' = [sent EXCEPT ![w] = [t \in Targets |-> <<>>]]
    /\ rd' = [rd EXCEPT ![w] = NoReads]
    /\ fault' = [fault EXCEPT ![w] = "none"]
    /\ pc' = [pc EXCEPT ![w] = AfterGuard(st)]
    /\ resp' = [resp EXCEPT ![w] = IF st # 0 THEN Status(st) ELSE NoResponse]
    /\ arrived' = arrived + 1

\* A client's request arrives, its headers, path, credentials, content type
\* and body drawn from the given sets.
ArriveTyped(w, H, P, C, T, B) ==
    /\ pc[w] \in {"idle", "done"}
    /\ arrived < MaxReq
    /\ \E h \in H, p \in P, c \in C, ct \in T, b \in B :
          StartRequest(w, [id |-> arrived + 1, hops |-> 0, method |-> "GET",
                           path |-> p, headers |-> h, cred |-> c, ctype |-> ct,
                           body |-> b])
    /\ UNCHANGED <<storeVars, inbox, webhooks>>

\* A request whose body is declared as JSON.
ArriveFrom(w, H, P, C, B) == ArriveTyped(w, H, P, C, {"application/json"}, B)

Arrive(w) == ArriveFrom(w, HeaderSets, Paths, Creds, Bodies)

\* Concurrent clients.
ArriveConcurrent(w) ==
    ArriveFrom(w, {{}, {<<"x-opengluck-login", "">>}}, {"/opengluck/ping", "/opengluck/random"},
               Creds, {"", "<ff>"})

\* Clients that send bodies of every kind under every content type.
ArriveCapture(w) ==
    ArriveTyped(w, {{}}, {"/opengluck/random"}, {"admin", "anon"}, ContentTypes, Bodies)

\* Clients of the revision route.
ArriveRevision(w) == ArriveFrom(w, {{}}, {"/opengluck/revision"}, {"user", "anon"}, {""})

\* A call made by the dispatcher to a route of this server arrives.
ArriveWebhook(w) ==
    /\ pc[w] \in {"idle", "done"}
    /\ arrived < MaxReq
    /\ inbox # <<>>
    /\ StartRequest(w, [Head(inbox) EXCEPT !.id = arrived + 1])
    /\ inbox' = Tail(inbox)
    /\ UNCHANGED <<storeVars, webhooks>>

\* Whether get_json returns None without raising: either, depending on the
\* installed Flask, for a body not declared as JSON.
SilentGetJson(ctype) == IF IsJsonMimetype(ctype) THEN {FALSE} ELSE BOOLEAN

\* _process_request, lines 48-65: the audit write, then the payload.
ProcessRequestLog(w) ==
    /\ pc[w] = "log"
    /\ \E ok \in BOOLEAN, silent \in SilentGetJson(req[w].ctype) :
          LET res == log_request_to_redis(ok)
              cap == CaptureBody(req[w].ctype, req[w].body, silent)
          IN
          /\ stages' = [stages EXCEPT ![w] = Append(@, "log")]
          /\ logres' = [logres EXCEPT ![w] = IF res.appended THEN "appended" ELSE "failed"]
          /\ auditLog' = IF res.appended THEN Append(auditLog, AuditRecord(req[w]))
                         ELSE auditLog
          /\ logCalls' = logCalls \cup {<<req[w].id, res.appended>>}
          /\ IF res.raised
             THEN Finish(w, Status(500), "log_request_to_redis") /\ UNCHANGED payload
             ELSE IF cap.raised
             THEN Finish(w, Status(500), "decode") /\ UNCHANGED payload
             ELSE /\ payload' = [payload EXCEPT ![w] = BuildPayload(req[w], cap.data)]
                  /\ pc' = [pc EXCEPT ![w] = "admin"]
                  /\ UNCHANGED <<resp, fault>>
    /\ UNCHANGED <<req, admin, sent, rd, revision, changedAt, writes, stored, inbox, arrived,
                   webhooks>>

\* _process_request, lines 67-68: the admin lookup, and the call of
\* call_webhooks when it answers yes.
ProcessRequestAdmin(w) ==
    /\ pc[w] = "admin"
    /\ admin' = [admin EXCEPT ![w] =
                    IF is_current_request_logged_in_as_admin(req[w]) THEN "yes" ELSE "no"]
    /\ IF CallsWebhooks(req[w])
       THEN /\ stages' = [stages EXCEPT ![w] = @ \o <<"admin", "dispatch">>]
            /\ pc' = [pc EXCEPT ![w] = "dispatch"]
       ELSE /\ stages' = [stages EXCEPT ![w] = Append(@, "admin")]
            /\ pc' = [pc EXCEPT ![w] = "route"]
    /\ UNCHANGED <<req, logres, payload, sent, resp, fault, rd, storeVars, inbox,
                   arrived, webhooks>>

\* call_webhooks: one delivery to target t, which succeeds, fails or times
\* out; a loopback target receives the call as a request of this server.
Deliver(w, t) ==
    /\ pc[w] = "dispatch"
    /\ t \in webhooks
    /\ CanDeliver(w, t)
    /\ \E o \in DeliveryOutcomes :
          /\ sent' = [sent EXCEPT ![w][t] =
                         Append(@, [outcome |-> o, event |-> "app_request",
                                    payload |-> payload[w], headers |-> WebhookHeaders])]
          /\ inbox' = IF t \in LoopbackTargets /\ o # "failed"
                      THEN Append(inbox, WebhookRequest(req[w]))
                      ELSE inbox
    /\ UNCHANGED <<pc, req, stages, logres, admin, payload, resp, fault, rd, storeVars,
                   arrived, webhooks>>

\* The outcomes of the deliveries made for w's request.
Outcomes(w) == {sent[w][t][i].outcome : <<t, i>> \in {x \in Targets \X {1} : sent[w][x[1]] # <<>>}}

\* call_webhooks returns to _process_request (line 68), which returns: the
\* before_request chain is over.
DispatchReturn(w) ==
    /\ pc[w] = "dispatch"
    /\ \A t \in webhooks : sent[w][t] # <<>>
    /\ IF call_webhooks(Outcomes(w)).raised
       THEN Finish(w, Status(500), "call_webhooks")
       ELSE pc' = [pc EXCEPT ![w] = "route"] /\ UNCHANGED <<resp, fault>>
    /\ UNCHANGED <<req, stages, logres, admin, payload, sent, rd, storeVars, inbox,
                   arrived, webhooks>>

\* The view of w's request runs: Flask calls it once every before_request
\* function has returned None.
RoutedBeforeHook(w, path) ==
    /\ pc[w] \in {"log", "route"}
    /\ req[w].path = path
    /\ stages' = [stages EXCEPT ![w] = Append(@, "route")]
Routed(w, path) ==
    /\ pc[w] = "route"
    /\ req[w].path = path
    /\ stages' = [stages EXCEPT ![w] = Append(@, "route")]

\* _ping, lines 83-88.
PingRollingBack(w) ==
    /\ Routed(w, "/opengluck/ping")
    /\ IF is_current_request_logged_in(req[w])
       THEN Finish(w, [status |-> 200, body |-> <<"pong">>], "none") /\ UNCHANGED auditLog
       ELSE /\ Finish(w, Status(401), "assert_current_request_logged_in")
            /\ auditLog' = SelectSeq(auditLog, LAMBDA rec : rec.id # req[w].id)
    /\ UNCHANGED <<req, logres, admin, payload, sent, rd, revision, changedAt, writes,
                   stored, logCalls, inbox, arrived, webhooks>>
PingUnchecked(w) ==
    /\ Routed(w, "/opengluck/ping")
    /\ Finish(w, [status |-> 200, body |-> <<"pong">>], "none")
    /\ UNCHANGED <<req, logres, admin, payload, sent, rd, storeVars, inbox, arrived,
                   webhooks>>
Ping(w) ==
    /\ Routed(w, "/opengluck/ping")
    /\ IF is_current_request_logged_in(req[w])
       THEN Finish(w, [status |-> 200, body |-> <<"pong">>], "none")
       ELSE Finish(w, Status(401), "assert_current_request_logged_in")
    /\ UNCHANGED <<req, logres, admin, payload, sent, rd, storeVars, inbox, arrived,
                   webhooks>>

\* _random, lines 91-93.
Random(w) ==
    /\ Routed(w, "/opengluck/random")
    /\ \E r \in RandomValues : Finish(w, [status |-> 200, body |-> <<"random", r>>], "none")
    /\ UNCHANGED <<req, logres, admin, payload, sent, rd, storeVars, inbox, arrived,
                   webhooks>>

\* No route matches: Flask answers 404 after the before_request chain.
NotFound(w) ==
    /\ Routed(w, "/other")
    /\ Finish(w, Status(404), "none")
    /\ UNCHANGED <<req, logres, admin, payload, sent, rd, storeVars, inbox, arrived,
                   webhooks>>

\* get_revision / get_revision_changed_at (opengluck/redis.py): the value the
\* store holds now.
get_revision(w) == revision
get_revision_changed_at_of_first_read(w) == rd[w].ver1
get_revision_changed_at(w) == changedAt

\* Lines 100-101: nothing in _get_revision_info catches the error of a read
\* of the store; the view fails and Flask answers 500.
StoreReadAnswersDefault(w, call) == Finish(w, [status |-> 200, body |-> <<"revision", 0, 0>>], "none")
StoreReadFailed(w, call) == Finish(w, Status(500), call)

\* _get_revision_info, lines 99-100: the store accessor of the logged-in
\* caller, then the first read.
GetRevisionInfoRead1(w) ==
    /\ Routed(w, "/opengluck/revision")
    /\ IF ~is_current_request_logged_in(req[w])
       THEN Finish(w, Status(401), "assert_get_current_request_redis_client")
            /\ UNCHANGED rd
       ELSE \E ok \in BOOLEAN :
               IF ok
               THEN /\ rd' = [rd EXCEPT ![w].revision = get_revision(w), ![w].ver1 = writes,
                                         ![w].reads = 1]
                    /\ pc' = [pc EXCEPT ![w] = "rev2"]
                    /\ UNCHANGED <<resp, fault>>
               ELSE StoreReadFailed(w, "get_revision") /\ UNCHANGED rd
    /\ UNCHANGED <<req, logres, admin, payload, sent, storeVars, inbox, arrived, webhooks>>

\* Lines 102-108.
RevisionResponseSwapped(rev, at) == [status |-> 200, body |-> <<"revision", at, rev>>]
RevisionResponse(rev, at) == [status |-> 200, body |-> <<"revision", rev, at>>]

\* _get_revision_info, lines 101-108: the second read and the response.
GetRevisionInfoRead2Touching(w) ==
    /\ pc[w] = "rev2"
    /\ changedAt' = changedAt + 1
    /\ Finish(w, RevisionResponse(rd[w].revision, changedAt + 1), "none")
    /\ UNCHANGED <<req, stages, logres, admin, payload, sent, rd, auditLog, revision,
                   writes, stored, logCalls, inbox, arrived, webhooks>>
GetRevisionInfoRead2(w) ==
    /\ pc[w] = "rev2"
    /\ \E ok \in BOOLEAN :
          IF ok
          THEN /\ rd' = [rd EXCEPT ![w].changedAt = get_revision_changed_at(w),
                                    ![w].ver2 = writes, ![w].reads = 2]
               /\ Finish(w, RevisionResponse(rd[w].revision, get_revision_changed_at(w)),
                         "none")
          ELSE StoreReadFailed(w, "get_revision_changed_at") /\ UNCHANGED rd
    /\ UNCHANGED <<req, stages, logres, admin, payload, sent, storeVars, inbox, arrived,
                   webhooks>>

\* Another component writes a new revision and the time of the change.
WriteRevision ==
    /\ writes < MaxWrites
    /\ \E v \in 0..MaxWrites :
          /\ v # revision
          /\ revision' = v
          /\ stored' = stored \cup {<<v, writes + 1>>}
    /\ changedAt' = writes + 1
    /\ writes' = writes + 1
    /\ UNCHANGED <<reqVars, auditLog, logCalls, inbox, arrived, webhooks>>

Step(w) ==
    \/ ProcessRequestLog(w)
    \/ ProcessRequestAdmin(w)
    \/ \E t \in Targets : Deliver(w, t)
    \/ DispatchReturn(w)
    \/ Ping(w)
    \/ Random(w)
    \/ NotFound(w)
    \/ GetRevisionInfoRead1(w)
    \/ GetRevisionInfoRead2(w)

\* One request at a time, of any kind.
Next ==
    \/ \E w \in {"w1"} : Arrive(w)
    \/ \E w \in {"w1"} : ArriveWebhook(w)
    \/ \E w \in {"w1"} : Step(w)

Spec == Init /\ [][Next]_vars

\* Two workers serve requests concurrently.
InitConcurrent == Init /\ webhooks = {"ext"}

NextConcurrent ==
    \/ \E w \in Workers : ArriveConcurrent(w)
    \/ \E w \in Workers : ProcessRequestLog(w)
    \/ \E w \in Workers : ProcessRequestAdmin(w)
    \/ \E w \in Workers, t \in Targets : Deliver(w, t)
    \/ \E w \in Workers : DispatchReturn(w)
    \/ \E w \in Workers : Ping(w)
    \/ \E w \in Workers : Random(w)

SpecConcurrent == InitConcurrent /\ [][NextConcurrent]_vars

\* Readers of the revision route and a writer of the revision.
InitRevision == Init /\ webhooks = {}

NextRevision ==
    \/ \E w \in Workers : ArriveRevision(w)
    \/ \E w \in Workers : ProcessRequestLog(w)
    \/ \E w \in Workers : ProcessRequestAdmin(w)
    \/ \E w \in Workers : GetRevisionInfoRead1(w)
    \/ \E w \in Workers : GetRevisionInfoRead2(w)
    \/ WriteRevision

SpecRevision == InitRevision /\ [][NextRevision]_vars

\* One worker, bodies of every kind under every content type.
InitCapture == Init /\ webhooks = {"ext"}

NextCapture ==
    \/ \E w \in {"w1"} : ArriveCapture(w)
    \/ \E w \in {"w1"} : ProcessRequestLog(w)
    \/ \E w \in {"w1"} : ProcessRequestAdmin(w)
    \/ \E w \in {"w1"}, t \in Targets : Deliver(w, t)
    \/ \E w \in {"w1"} : DispatchReturn(w)
    \/ \E w \in {"w1"} : Random(w)

SpecCapture == InitCapture /\ [][NextCapture]_vars

\* Fair scheduling of the workers: a request that can take a step takes it.
SpecFair == Init /\ [][Next]_vars /\ \A w \in {"w1"} : WF_vars(Step(w))

\* ------------------------------------------------------------- claims
Guarded(r) == HasHeader(r.headers, SentinelHeader)
Serving(w) == pc[w] # "idle"
Done(w) == pc[w] = "done"
Ran(w, stage) == \E i \in 1..Len(stages[w]) : stages[w][i] = stage
Times(w, stage) == Cardinality({i \in 1..Len(stages[w]) : stages[w][i] = stage})
Records(id) == {i \in 1..Len(auditLog) : auditLog[i].id = id}
NoDelivery(w) == \A t \in Targets : sent[w][t] = <<>>
Failed(o) == o \in {"failed", "timeout"}

\* C1: a request that carries the sentinel header, in any letter case and
\* with any value, on any path and with any credentials, is answered 423 by
\* the guard, and no audit write, admin lookup, dispatch or view runs for it.
C1_GuardAborts ==
    \A w \in Workers :
        (Serving(w) /\ Guarded(req[w])) =>
            /\ Done(w)
            /\ resp[w] = Status(423)
            /\ stages[w] = <<"guard">>
            /\ logres[w] = "none"
            /\ admin[w] = "none"
            /\ NoDelivery(w)
            /\ Records(req[w].id) = {}
            /\ \A c \in logCalls : c[1] # req[w].id

C1_Witness ==
    \E w \in Workers :
        /\ Done(w)
        /\ req[w].headers = {<<"x-opengluck-login", "">>}
        /\ req[w].cred = "admin"
        /\ req[w].path = "/opengluck/revision"
        /\ resp[w].status = 423

\* C2 as stated: every request without the sentinel header has exactly one
\* audit record in the store once its audit write is over, and the store
\* holds as many records as audit writes were made.
C2_ExactlyOneRecord ==
    /\ \A w \in Workers :
          (Serving(w) /\ ~Guarded(req[w]) /\ pc[w] # "log") =>
              Cardinality(Records(req[w].id)) = 1
    /\ Len(auditLog) = Cardinality(logCalls)

\* C2 as amended: for every request without the sentinel header the audit
\* logger is called exactly once, whatever the credentials and the view's own
\* check; the call appends exactly one record when the store is reachable and
\* none when it is not; the store holds one record per call that reached it,
\* and none of a guarded request.
C2_OneAuditWritePerRequest ==
    /\ \A w \in Workers :
          (Serving(w) /\ ~Guarded(req[w])) =>
              IF pc[w] = "log"
              THEN /\ Times(w, "log") = 0
                   /\ Records(req[w].id) = {}
              ELSE /\ Times(w, "log") = 1
                   /\ logres[w] \in {"appended", "failed"}
                   /\ Cardinality({c \in logCalls : c[1] = req[w].id}) = 1
                   /\ <<req[w].id, logres[w] = "appended">> \in logCalls
                   /\ Cardinality(Records(req[w].id)) =
                          IF logres[w] = "appended" THEN 1 ELSE 0
    /\ Len(auditLog) = Cardinality({c \in logCalls : c[2]})
    /\ \A i \in 1..Len(auditLog) :
          /\ ~HasHeader(auditLog[i].headers, SentinelHeader)
          /\ <<auditLog[i].id, TRUE>> \in logCalls

\* Two concurrent requests, one of an anonymous caller rejected by the view
\* and one of an admin, each with its record in the store.
C2_Witness ==
    /\ Len(auditLog) = 2
    /\ Done("w1") /\ Done("w2")
    /\ req["w1"].cred = "anon" /\ resp["w1"].status = 401
    /\ req["w2"].cred = "admin" /\ resp["w2"].status = 200
    /\ auditLog[1].id = req["w2"].id
    /\ auditLog[2].id = req["w1"].id
    /\ req["w1"].id < req["w2"].id

\* C3: call_webhooks is called for a request if and only if the admin lookup
\* answered yes for it, at most once, and no delivery is made for a request
\* the lookup did not report as admin.
C3_DispatchIffAdmin ==
    \A w \in Workers :
        /\ Ran(w, "dispatch") <=> admin[w] = "yes"
        /\ Times(w, "dispatch") <= 1
        /\ admin[w] # "yes" => NoDelivery(w)
        /\ admin[w] = "yes" <=> (Ran(w, "admin") /\ req[w].cred = "admin")

C3_Witness ==
    \E w \in Workers :
        /\ Done(w)
        /\ admin[w] = "yes"
        /\ Times(w, "dispatch") = 1
        /\ \E t \in Targets : sent[w][t] # <<>>

\* The same request apart from its id.
SameRequest(a, b) == [a EXCEPT !.id = 0] = [b EXCEPT !.id = 0]

\* What the client and the later stages see of a request.
Course(w) == <<stages[w], admin[w], fault[w], resp[w].status>>

\* C4: a failed audit write never fails the request: no request ends on an
\* error of the audit logger, and a request whose write failed goes through
\* the same stages (admin lookup, dispatch, view) and gets the same status as
\* the same request whose write succeeded.
C4_LogFailureNotSurfaced ==
    /\ \A w \in Workers : fault[w] # "log_request_to_redis"
    /\ \A w1, w2 \in Workers :
          ( /\ Done(w1) /\ Done(w2)
            /\ SameRequest(req[w1], req[w2])
            /\ logres[w1] = "failed" /\ logres[w2] = "appended" ) =>
              Course(w1) = Course(w2)

C4_Witness ==
    /\ Done("w1") /\ Done("w2")
    /\ SameRequest(req["w1"], req["w2"])
    /\ logres["w1"] = "failed" /\ logres["w2"] = "appended"
    /\ Ran("w1", "admin") /\ Ran("w1", "route")
    /\ resp["w1"] = [status |-> 200, body |-> <<"pong">>]
    /\ resp["w2"] = resp["w1"]

\* The response as the client sees it; of the random route, the draw apart.
Answer(w) ==
    <<fault[w], resp[w].status,
      IF req[w].path = "/opengluck/random" THEN <<>> ELSE resp[w].body>>

C6_OneAttemptPerTarget ==
    \A w \in Workers :
        /\ \A t \in Targets :
              /\ Len(sent[w][t]) <= 1
              /\ t \notin webhooks => sent[w][t] = <<>>
              /\ sent[w][t] # <<>> =>
                     /\ sent[w][t][1].event = "app_request"
                     /\ sent[w][t][1].payload = payload[w]
        /\ pc[w] = "dispatch" =>
              \A t \in webhooks : sent[w][t] = <<>> => ENABLED Deliver(w, t)
        /\ (admin[w] = "yes" /\ pc[w] \in {"route", "rev2", "done"}) =>
              Cardinality({t \in Targets : Len(sent[w][t]) = 1}) = Cardinality(webhooks)

C6_Witness ==
    \E w \in Workers :
        /\ Done(w)
        /\ webhooks = Targets
        /\ sent[w]["ext"] # <<>> /\ sent[w]["ext"][1].outcome = "failed"
        /\ sent[w]["ext2"] # <<>> /\ sent[w]["ext2"][1].outcome = "timeout"
        /\ sent[w]["self"] # <<>> /\ sent[w]["self"][1].outcome = "ok"

\* The orders in which the stages of one request can have run so far.
StageOrders ==
    { <<"guard">>,
      <<"guard", "log">>,
      <<"guard", "log", "admin">>,
      <<"guard", "log", "admin", "dispatch">>,
      <<"guard", "log", "admin", "route">>,
      <<"guard", "log", "admin", "dispatch", "route">> }

\* C7: the stages of a request run in the order guard, audit write, admin
\* lookup, dispatch (if admin), view, none twice: the audit write is over
\* before the lookup, and every delivery of the dispatch is over before the
\* view starts.
C7_StagesInOrder ==
    \A w \in Workers :
        Serving(w) =>
            /\ stages[w] \in StageOrders
            /\ Ran(w, "log") <=> logres[w] # "none"
            /\ Ran(w, "admin") <=> admin[w] # "none"
            /\ ~NoDelivery(w) => Ran(w, "dispatch")
            /\ Ran(w, "route") <=> (pc[w] = "rev2" \/ resp[w].status \in {200, 401, 404}
                                    \/ fault[w] \in {"get_revision", "get_revision_changed_at"})
            /\ (Ran(w, "route") /\ admin[w] = "yes") =>
                   \A t \in webhooks : sent[w][t] # <<>>

C7_Witness ==
    \E w \in Workers :
        /\ Done(w)
        /\ stages[w] = <<"guard", "log", "admin", "dispatch", "route">>
        /\ webhooks # {}
        /\ resp[w].status = 200

\* C8: a call the dispatcher makes to a route of this server carries the
\* sentinel header and is stopped by the guard: it writes no audit record,
\* is not dispatched again, and so no request is more than one hop away from
\* a client's request.
C8_NoWebhookLoop ==
    /\ \A i \in 1..Len(inbox) :
          /\ inbox[i].hops = 1
          /\ HasHeader(inbox[i].headers, SentinelHeader)
    /\ \A w \in Workers :
          /\ req[w].hops <= 1
          /\ req[w].hops = 1 =>
                 /\ Done(w)
                 /\ resp[w] = Status(423)
                 /\ NoDelivery(w)
                 /\ ~Ran(w, "log") /\ ~Ran(w, "dispatch")
                 /\ Records(req[w].id) = {}
    /\ \A i \in 1..Len(auditLog) : ~HasHeader(auditLog[i].headers, SentinelHeader)

C8_Witness ==
    \E w \in Workers :
        /\ req[w].hops = 1
        /\ Done(w)
        /\ resp[w].status = 423
        /\ Len(auditLog) = 1

\* C9 as stated, its safety part: a request that has ended was either stopped
\* by the guard with 423 or answered by its view.
C9_AbortedOrResponded ==
    \A w \in Workers :
        Done(w) => \/ resp[w] = Status(423) /\ stages[w] = <<"guard">>
                   \/ Ran(w, "route")

\* The liveness part of C9: under fair scheduling every request is answered.
C9_EventuallyAnswered == \A w \in Workers : (pc[w] \notin {"idle", "done"}) ~> Done(w)

\* C10: the revision route answers with the values the store holds: a read
\* made after the last write returns what that write stored, for the
\* revision and for the time of its change.
C10_ReadsReturnStoredValues ==
    \A w \in Workers :
        /\ (pc[w] = "rev2" /\ rd[w].ver1 = writes) => rd[w].revision = revision
        /\ (Done(w) /\ resp[w].status = 200) =>
              /\ resp[w].body = <<"revision", rd[w].revision, rd[w].changedAt>>
              /\ rd[w].ver1 = writes => resp[w].body[2] = revision
              /\ rd[w].ver2 = writes => resp[w].body[3] = changedAt

\* A write of 1 then a read that returns 1, a write of 2 then a read that
\* returns 2.
C10_Witness ==
    /\ Done("w1") /\ Done("w2")
    /\ rd["w1"].ver1 = 1 /\ resp["w1"] = RevisionResponse(1, 1)
    /\ rd["w2"].ver1 = 2 /\ resp["w2"] = RevisionResponse(2, 2)
    /\ revision = 2 /\ writes = 2

\* C11: the revision route answers 200 only to a logged-in caller whose two
\* reads of the store both returned a value, and then with the values read;
\* a caller who is not logged in, and a caller one of whose reads met an
\* unreachable store, gets an error response that carries no revision
\* value, neither a default nor one read earlier.
C11_RevisionOnlyWhenBothReadsSucceed ==
    \A w \in Workers :
        (Ran(w, "route") /\ req[w].path = "/opengluck/revision") =>
            /\ resp[w].status = 200 =>
                   /\ is_current_request_logged_in(req[w])
                   /\ rd[w].reads = 2
                   /\ fault[w] = "none"
                   /\ resp[w].body = <<"revision", rd[w].revision, rd[w].changedAt>>
            /\ (Done(w) /\ ~is_current_request_logged_in(req[w])) =>
                   /\ resp[w] = Status(401)
                   /\ rd[w].reads = 0
            /\ (Done(w) /\ rd[w].reads < 2) =>
                   /\ resp[w].status \in {401, 500}
                   /\ resp[w].body = <<>>
                   /\ fault[w] \in {"assert_get_current_request_redis_client",
                                    "get_revision", "get_revision_changed_at"}

\* One caller answered with the stored pair, the other refused after its
\* first read returned the revision and its second met an unreachable store.
C11_Witness ==
    /\ Done("w1") /\ Done("w2")
    /\ resp["w1"] = RevisionResponse(1, 1)
    /\ rd["w2"].reads = 1 /\ rd["w2"].revision = 1
    /\ fault["w2"] = "get_revision_changed_at"
    /\ resp["w2"] = Status(500)

\* C12 as stated: once the body of a request is captured it is one of three
\* variants and the capture never fails: the decoded value when the body is
\* valid JSON, else the raw text when that text is not empty, else null; the
\* text variant is never the empty string.
C12_BodyResolved ==
    \A w \in Workers :
        Ran(w, "log") =>
            /\ fault[w] # "decode"
            /\ payload[w].data =
                   IF IsJson(req[w].body) THEN [tag |-> "json", val |-> req[w].body]
                   ELSE IF req[w].body # "" THEN [tag |-> "text", val |-> req[w].body]
                   ELSE NoData
            /\ payload[w].data.tag = "text" => payload[w].data.val # ""

\* C13: "pong" is returned only by the ping view, to a request without the
\* sentinel header whose caller is logged in, admin or not; a caller who is
\* not logged in and reaches the ping view is refused with an authentication
\* error and gets no "pong"; the random view answers whoever calls.
C13_PongOnlyWhenLoggedIn ==
    \A w \in Workers :
        /\ resp[w].body = <<"pong">> =>
               /\ ~Guarded(req[w])
               /\ is_current_request_logged_in(req[w])
               /\ req[w].path = "/opengluck/ping"
               /\ Ran(w, "route")
               /\ resp[w].status = 200
        /\ (Done(w) /\ Ran(w, "route") /\ req[w].path = "/opengluck/ping") =>
               IF is_current_request_logged_in(req[w])
               THEN resp[w] = [status |-> 200, body |-> <<"pong">>]
               ELSE /\ resp[w] = Status(401)
                    /\ fault[w] = "assert_current_request_logged_in"
        /\ (Done(w) /\ Ran(w, "route") /\ req[w].path = "/opengluck/random") =>
               /\ resp[w].status = 200
               /\ resp[w].body[1] = "random"
               /\ fault[w] = "none"

\* A logged-in caller who is not an admin gets "pong" while an anonymous
\* caller of the same route is refused.
C13_Witness ==
    /\ Done("w1") /\ Done("w2")
    /\ req["w1"].path = "/opengluck/ping" /\ req["w1"].cred = "user"
    /\ resp["w1"] = [status |-> 200, body |-> <<"pong">>]
    /\ req["w2"].path = "/opengluck/ping" /\ req["w2"].cred = "anon"
    /\ resp["w2"] = Status(401)
    /\ fault["w2"] = "assert_current_request_logged_in"

\* C14: the two reads of the revision route are separate: the response holds
\* the revision the store held at the first read and the changedAt it held at
\* the second.  With no write between the reads the pair is one the store
\* held; with one write between them it is the old revision with the new
\* changedAt, a pair the store never held.
C14_ReadsNotPaired ==
    \A w \in Workers :
        (Done(w) /\ resp[w].status = 200 /\ req[w].path = "/opengluck/revision") =>
            /\ rd[w].ver1 <= rd[w].ver2
            /\ <<resp[w].body[2], rd[w].ver1>> \in stored
            /\ resp[w].body[3] = rd[w].ver2
            /\ rd[w].ver1 = rd[w].ver2 => <<resp[w].body[2], resp[w].body[3]>> \in stored
            /\ rd[w].ver2 = rd[w].ver1 + 1 =>
                   <<resp[w].body[2], resp[w].body[3]>> \notin stored

\* The store held <<0, 0>> and then <<1, 1>>; the response pairs 0 with 1.
C14_Witness ==
    \E w \in Workers :
        /\ Done(w)
        /\ stored = {<<0, 0>>, <<1, 1>>}
        /\ resp[w] = RevisionResponse(0, 1)
        /\ rd[w].ver1 = 0 /\ rd[w].ver2 = 1

\* C15: no step of a request, in the guard, the before_request hook or a
\* view, writes the revision or its changedAt; the only change such a step
\* makes to the shared store is the append of the request's audit record by
\* the audit write.
C15_CoreOnlyAppendsAudit ==
    [][ reqVars' # reqVars =>
          /\ UNCHANGED <<revision, changedAt, writes, stored>>
          /\ \/ UNCHANGED auditLog
             \/ \E w \in Workers :
                   /\ pc[w] = "log"
                   /\ auditLog' = Append(auditLog, AuditRecord(req[w])) ]_vars

\* Two requests have left their audit records, the second answered by the
\* revision view with the pair the store held from the start.
C15_Witness ==
    \E w \in Workers :
        /\ Done(w)
        /\ req[w].path = "/opengluck/revision"
        /\ resp[w] = RevisionResponse(0, 0)
        /\ Len(auditLog) = 2
        /\ revision = 0 /\ changedAt = 0

\* C16: every delivery of a dispatch carries the event name "app_request"
\* and a payload whose method, path, headers, cookies and body are those of
\* the request that worker serves, with whatever other request is served at
\* the same time.
C16_DispatchCarriesOwnRequest ==
    \A w \in Workers : \A t \in Targets : \A i \in 1..Len(sent[w][t]) :
        LET d == sent[w][t][i] IN
        /\ d.event = "app_request"
        /\ d.payload.method = req[w].method
        /\ d.payload.path = req[w].path
        /\ d.payload.headers = req[w].headers
        /\ d.payload.cookies = req[w].cred
        /\ \E silent \in SilentGetJson(req[w].ctype) :
               d.payload.data = CaptureBody(req[w].ctype, req[w].body, silent).data
        /\ d.payload.data.val \in {"", req[w].body}

\* Two admin requests on different routes are in their dispatch at the same
\* time, each delivery with the path of its own request.
C16_Witness ==
    /\ pc["w1"] = "dispatch" /\ pc["w2"] = "dispatch"
    /\ req["w1"].path = "/opengluck/ping" /\ req["w2"].path = "/opengluck/random"
    /\ req["w1"].id > req["w2"].id
    /\ sent["w1"]["ext"] # <<>> /\ sent["w1"]["ext"][1].payload.path = "/opengluck/ping"
    /\ sent["w2"]["ext"] # <<>> /\ sent["w2"]["ext"][1].payload.path = "/opengluck/random"

\* C17 as stated: a view has run for a request only if the audit write of
\* that request is complete, its record in the store.
C17_HandlerOnlyAfterAuditWrite ==
    \A w \in Workers :
        Ran(w, "route") =>
            /\ logres[w] = "appended"
            /\ Cardinality(Records(req[w].id)) = 1

\* C17 as amended: a view runs for a request only after the one call of the
\* audit logger for that request has returned without raising; the call
\* returns so with the record appended or, the store out of reach, with the
\* failure reported locally and no record, and the view runs in both cases.
C17_HandlerOnlyAfterAuditCall ==
    \A w \in Workers :
        Ran(w, "route") =>
            /\ \E i, j \in 1..Len(stages[w]) :
                   i < j /\ stages[w][i] = "log" /\ stages[w][j] = "route"
            /\ logres[w] \in {"appended", "failed"}
            /\ fault[w] # "log_request_to_redis"
            /\ {c \in logCalls : c[1] = req[w].id} = {<<req[w].id, logres[w] = "appended">>}
            /\ Cardinality(Records(req[w].id)) = IF logres[w] = "appended" THEN 1 ELSE 0

\* The ping view has answered a request whose audit write met an unreachable
\* store and left no record.
C17_Witness ==
    \E w \in Workers :
        /\ Done(w)
        /\ Ran(w, "route")
        /\ logres[w] = "failed"
        /\ Records(req[w].id) = {}
        /\ resp[w] = [status |-> 200, body |-> <<"pong">>]

\* C18: no step removes or alters a record of the audit log, and the record
\* appended for a request is still in the log after every later step of
\* that request, whether the hook fails after the append, deliveries of the
\* dispatch fail, or the view refuses the caller.
C18_AuditRecordsKept ==
    [][ /\ Len(auditLog') >= Len(auditLog)
        /\ \A i \in 1..Len(auditLog) : auditLog'[i] = auditLog[i]
        /\ \A w \in Workers :
              (logres[w] = "appended" /\ req'[w] = req[w]) =>
                  \E i \in 1..Len(auditLog') : auditLog'[i] = AuditRecord(req[w]) ]_vars

\* The record of a request refused by the ping view and the record of an
\* admin request whose delivery failed are both in the log at the end.
C18_Witness ==
    /\ Done("w1") /\ Done("w2")
    /\ req["w1"].cred = "anon" /\ resp["w1"] = Status(401)
    /\ req["w2"].cred = "admin" /\ Outcomes("w2") = {"failed"}
    /\ logres["w1"] = "appended" /\ logres["w2"] = "appended"
    /\ \E i, j \in 1..Len(auditLog) :
          /\ auditLog[i] = AuditRecord(req["w1"])
          /\ auditLog[j] = AuditRecord(req["w2"])
====
